---- MODULE Spec2Model ----
(***************************************************************************)
(* plumnote: the note store behind the add, list, update and remove       *)
(* commands of src/plumnote.go.  settings.json is only read (for the       *)
(* author of a new note): what it holds is fixed at the start.             *)
(*                                                                         *)
(* A Go string is a sequence of one-character strings ("a,b" is            *)
(* <<"a", ",", "b">>), so that strings.Split, strconv.Atoi and             *)
(* time.ParseInLocation are computed on the characters.  A Notes map       *)
(* (map[uint32]Note) is a function from its keys to Note records; a        *)
(* []string is a sequence and the nil slice is <<>>.  A time.Time is the   *)
(* number of seconds since local midnight of 01/01/2025 in the machine's   *)
(* time zone, which is taken to have a fixed offset.  Identifiers stay     *)
(* below 2^31, where uint32(int) and int32(uint32) keep the value.         *)
(***************************************************************************)
EXTENDS Integers, Sequences, FiniteSets, TLC

VARIABLES
    file,       \* notes.json: the persisted Notes map
    settings,   \* settings.json: the value stored under "author" (read only)
    clock,      \* time.Now()
    last,       \* what the last command was given, saw and returned
    procs,      \* two commands running at once: where each is and what it loaded
    sync        \* two installations and the exchange between them

vars == <<file, settings, clock, last, procs, sync>>

----------------------------------------------------------------------------
(* Bounds of the model. *)

MaxNotes == 2       \* add / update run only while the map has fewer entries

----------------------------------------------------------------------------
(* Go strings and the conversions the commands apply to their arguments. *)

Digits == <<"0", "1", "2", "3", "4", "5", "6", "7", "8", "9">>

IsDigit(c) == \E i \in 1..10 : Digits[i] = c

DigitVal(c) == (CHOOSE i \in 1..10 : Digits[i] = c) - 1

RECURSIVE SplitFrom(_, _)
SplitFrom(s, cur) ==
    IF s = <<>> THEN <<cur>>
    ELSE IF Head(s) = "," THEN <<cur>> \o SplitFrom(Tail(s), <<>>)
    ELSE SplitFrom(Tail(s), Append(cur, Head(s)))

\* strings.Split(s, ","): never empty, "" splits into [""].
Split(s) == SplitFrom(s, <<>>)

RECURSIVE DecimalVal(_, _)
DecimalVal(s, acc) ==
    IF s = <<>> THEN acc ELSE DecimalVal(Tail(s), acc * 10 + DigitVal(Head(s)))

AllDigits(s) == \A i \in 1..Len(s) : IsDigit(s[i])

\* strconv.Atoi: an optional sign and at least one digit; (0, err) otherwise.
Atoi(s) ==
    LET signed == s # <<>> /\ Head(s) \in {"+", "-"}
        body   == IF signed THEN Tail(s) ELSE s
    IN  IF body = <<>> \/ ~AllDigits(body) THEN [val |-> 0, err |-> "atoi"]
        ELSE [val |-> IF signed /\ Head(s) = "-" THEN 0 - DecimalVal(body, 0)
                      ELSE DecimalVal(body, 0),
              err |-> "nil"]

\* uint32(n) of an int: a negative n wraps around 2^32.
ToUint32(n) == IF n >= 0 THEN n ELSE ((n + 2147483647) + 2147483647) + 2

\* int32(u) of a uint32: a value above 2^31 - 1 wraps to a negative one.
ToInt32(u) == IF u <= 2147483647 THEN u ELSE ((u - 2147483647) - 2147483647) - 2

SecondsPerDay == 24 * 60 * 60

IsLeap(y) == (y % 4 = 0 /\ y % 100 # 0) \/ y % 400 = 0

DaysIn(m, y) ==
    IF m = 2 THEN (IF IsLeap(y) THEN 29 ELSE 28)
    ELSE IF m \in {4, 6, 9, 11} THEN 30 ELSE 31

RECURSIVE DaysBeforeMonth(_, _)
DaysBeforeMonth(m, y) ==
    IF m = 1 THEN 0 ELSE DaysBeforeMonth(m - 1, y) + DaysIn(m - 1, y)

DaysOfYear(y) == IF IsLeap(y) THEN 366 ELSE 365

\* Days from 01/01/2025 to 01/01/y (negative for an earlier year).
RECURSIVE DaysBeforeYear(_)
DaysBeforeYear(y) ==
    IF y = 2025 THEN 0
    ELSE IF y > 2025 THEN DaysBeforeYear(y - 1) + DaysOfYear(y - 1)
    ELSE DaysBeforeYear(y + 1) - DaysOfYear(y)

\* time.ParseInLocation("02/01/2006", s, time.Local): two digits, a slash, two
\* digits, a slash, four digits, naming a day that exists; the value is that
\* day's local midnight.
ParseDate(s) ==
    IF /\ Len(s) = 10
       /\ s[3] = "/" /\ s[6] = "/"
       /\ \A i \in {1, 2, 4, 5, 7, 8, 9, 10} : IsDigit(s[i])
    THEN LET d == DecimalVal(SubSeq(s, 1, 2), 0)
             m == DecimalVal(SubSeq(s, 4, 5), 0)
             y == DecimalVal(SubSeq(s, 7, 10), 0)
         IN  IF m \in 1..12 /\ d >= 1 /\ d <= DaysIn(m, y)
             THEN [val |-> (DaysBeforeYear(y) + DaysBeforeMonth(m, y) + (d - 1))
                               * SecondsPerDay,
                   err |-> "nil"]
             ELSE [val |-> 0, err |-> "parse"]
    ELSE [val |-> 0, err |-> "parse"]

----------------------------------------------------------------------------
(* Note, Notes and the heap of maps a command works on. *)

\* time.Time{}: 1 January of year 1, which precedes every date of the model.
\* Its distance to the epoch does not fit a 32-bit integer; only its
\* order against the other instants is used.
ZeroTime == 0 - 2000000000

\* Note{}: the zero value a map read of an absent key yields.
ZeroNote ==
    [Id |-> 0, Kind |-> <<>>, Tags |-> <<>>, Text |-> <<>>, Date |-> ZeroTime,
     Author |-> <<>>]

EmptyNotes == [k \in {} |-> ZeroNote]

\* notes[k]
Get(notes, k) == IF k \in DOMAIN notes THEN notes[k] ELSE ZeroNote

\* notes[k] = v
Put(notes, k, v) ==
    [x \in DOMAIN notes \cup {k} |-> IF x = k THEN v ELSE notes[x]]

\* delete(notes, k)
Delete(notes, k) == [x \in DOMAIN notes \ {k} |-> notes[x]]

\* maps.Copy(dst, src)
MapsCopy(dst, src) ==
    [x \in DOMAIN dst \cup DOMAIN src |-> IF x \in DOMAIN src THEN src[x] ELSE dst[x]]

\* slices.Contains(tags, tag)
Contains(tags, tag) == \E i \in 1..Len(tags) : tags[i] = tag

\* A heap is the sequence of the maps allocated so far; a map value of the Go
\* program is an address into it, and two variables holding the same address
\* share the map.  make(Notes, n) allocates an empty map.
MakeNotes(heap) == [ret |-> Len(heap) + 1, heap |-> Append(heap, EmptyNotes)]

\* for _, note := range notes { if <match> { filtered[note.Id] = note } }
\* where keys are the keys of the entries that match.  The entries come in an
\* order the runtime picks, so of several matching notes that carry the same
\* Id any one may be written last: the operator is the set of the maps the
\* loop may leave in filtered, which was empty.
Collect(notes, keys) ==
    LET hits == {notes[k] : k \in keys}
        ids  == {n.Id : n \in hits}
    IN  {f \in [ids -> hits] : \A i \in ids : f[i].Id = i}

----------------------------------------------------------------------------
(* The query filters.  Each takes the address of the map it is given and   *)
(* the heap, and is the set of the outcomes the runtime's iteration order  *)
(* allows: ret is the address of the returned map (0 for nil) and heap the *)
(* heap after the call.                                                    *)

\* The loop of a single-predicate filter over the map at src, writing the
\* entries under keys into the map at dst.
RangeInto(heap, src, dst, keys) ==
    {[heap EXCEPT ![dst] = MapsCopy(@, f)] : f \in Collect(heap[src], keys)}

getNotesByTag(tag, notes, heap) ==
    LET m == MakeNotes(heap)
    IN  {[ret |-> m.ret, heap |-> h] :
            h \in RangeInto(m.heap, notes, m.ret,
                    {k \in DOMAIN heap[notes] : Contains(heap[notes][k].Tags, tag)})}

RECURSIVE ExactLoop(_, _, _)
ExactLoop(tags, filtered, heap) ==
    IF tags = <<>> THEN {[ret |-> filtered, heap |-> heap]}
    ELSE UNION {ExactLoop(Tail(tags), r.ret, r.heap) :
                    r \in getNotesByTag(Head(tags), filtered, heap)}

\* A narrowing that deletes from the map it was handed the notes lacking a tag.
RECURSIVE ExactInPlace(_, _, _)
ExactInPlace(tags, notes, heap) ==
    IF tags = <<>> THEN {[ret |-> notes, heap |-> heap]}
    ELSE ExactInPlace(Tail(tags), notes,
            [heap EXCEPT ![notes] =
                [k \in {x \in DOMAIN @ : Contains(@[x].Tags, Head(tags))} |-> @[k]]])

\* filtered := notes shares the caller's map until the first tag replaces it.
getNotesByTagsExact(tags, notes, heap) == ExactLoop(tags, notes, heap)

RECURSIVE AnyLoop(_, _, _, _)
AnyLoop(tags, notes, filtered, heap) ==
    IF tags = <<>> THEN {[ret |-> filtered, heap |-> heap]}
    ELSE UNION {AnyLoop(Tail(tags), notes, filtered,
                        [r.heap EXCEPT ![filtered] = MapsCopy(@, r.heap[r.ret])]) :
                    r \in getNotesByTag(Head(tags), notes, heap)}

getNotesByTags(tags, notes, heap) ==
    LET m == MakeNotes(heap) IN AnyLoop(tags, notes, m.ret, m.heap)

getNotesByKind(noteKind, notes, heap) ==
    LET m == MakeNotes(heap)
    IN  {[ret |-> m.ret, heap |-> h] :
            h \in RangeInto(m.heap, notes, m.ret,
                    {k \in DOMAIN heap[notes] : heap[notes][k].Kind = noteKind})}

getNotesByAuthor(author, notes, heap) ==
    LET m == MakeNotes(heap)
    IN  {[ret |-> m.ret, heap |-> h] :
            h \in RangeInto(m.heap, notes, m.ret,
                    {k \in DOMAIN heap[notes] : heap[notes][k].Author = author})}

\* time.Hour * 23 + time.Minute * 59 + time.Second * 59
EndOfDay == 23 * 3600 + 59 * 60 + 59

\* startDate.Compare(d) == -1 && endDate.Compare(d) == 1
InRange(startDate, endDate, d) == startDate < d /\ endDate > d

getNotesByDate(dates, notes, heap) ==
    LET m     == MakeNotes(heap)
        start == ParseDate(dates[1])
        end   == ParseDate(dates[2])
    IN  IF start.err # "nil" THEN {[ret |-> 0, heap |-> m.heap, err |-> start.err]}
        ELSE IF end.err # "nil" THEN {[ret |-> 0, heap |-> m.heap, err |-> end.err]}
        ELSE {[ret |-> m.ret, heap |-> h, err |-> "nil"] :
                h \in RangeInto(m.heap, notes, m.ret,
                        {k \in DOMAIN heap[notes] :
                            InRange(start.val, end.val + EndOfDay, heap[notes][k].Date)})}

WithErr(rs, e) == {[ret |-> r.ret, heap |-> r.heap, err |-> e] : r \in rs}

\* case "-i", "--id": the note read under the id is stored under key 0 of
\* the map filterNotes made, before the conversion's error is looked at.
getNoteById(filter, notes, filtered, heap) ==
    LET id == Atoi(filter)
        h  == [heap EXCEPT ![filtered] = Put(@, 0, Get(heap[notes], ToUint32(id.val)))]
    IN  IF id.err # "nil" THEN {[ret |-> 0, heap |-> h, err |-> id.err]}
        ELSE {[ret |-> filtered, heap |-> h, err |-> "nil"]}

filterNotes(filterMode, filter, notes, heap) ==
    LET m == MakeNotes(heap)
    IN  IF filterMode \in {"-a", "--author"}
            THEN WithErr(getNotesByAuthor(filter, notes, m.heap), "nil")
        ELSE IF filterMode \in {"-i", "--id"}
            THEN getNoteById(filter, notes, m.ret, m.heap)
        ELSE IF filterMode \in {"-k", "--kind"}
            THEN WithErr(getNotesByKind(filter, notes, m.heap), "nil")
        ELSE IF filterMode \in {"-t", "--tags"}
            THEN WithErr(getNotesByTags(Split(filter), notes, m.heap), "nil")
        ELSE IF filterMode \in {"-e", "--exact-tags"}
            THEN WithErr(getNotesByTagsExact(Split(filter), notes, m.heap), "nil")
        ELSE IF filterMode \in {"-d", "--date"}
            THEN (IF Len(Split(filter)) # 2
                  THEN {[ret |-> 0, heap |-> m.heap, err |-> "usage"]}
                  ELSE getNotesByDate(Split(filter), notes, m.heap))
        ELSE {[ret |-> 0, heap |-> m.heap, err |-> "usage"]}

----------------------------------------------------------------------------
(* The store. *)

Max(S) == CHOOSE x \in S : \A y \in S : y <= x

getHighestId(notes) == Max({0 - 1} \cup {ToInt32(notes[k].Id) : k \in DOMAIN notes})

\* What the file system does to one command: every call succeeds, reading
\* or decoding a document fails, or writing notes.json fails.
IoOutcomes == {"ok", "load", "save"}

\* load(NotesFile, notes): the decoded document, or an error.
load(io) == IF io = "load" THEN [notes |-> EmptyNotes, err |-> "load"]
            ELSE [notes |-> file, err |-> "nil"]

\* save(NotesFile, notes): the document is replaced, or an error and the
\* document as it was.
save(io, notes) == IF io = "save" THEN [doc |-> file, err |-> "save"]
                   ELSE [doc |-> notes, err |-> "nil"]

----------------------------------------------------------------------------
(* The arguments the commands are run with. *)

sA   == <<"a">>
sB   == <<"b">>
sAB  == <<"a", ",", "b">>
sT   == <<"t">>
sJ   == <<"j">>
sX   == <<"x">>
sY   == <<"y">>
sM   == <<"m">>
sDay1 == <<"0", "1", "/", "0", "1", "/", "2", "0", "2", "5">>
sDay2 == <<"0", "2", "/", "0", "1", "/", "2", "0", "2", "5">>
sBadDay == <<"1", "/", "1", "/", "2", "5">>

\* add: the kind, whether --tags was given and its value, the text.
AddArgs ==
    {[kind |-> sT, hasTags |-> TRUE,  tags |-> sAB,  text |-> sX],
     [kind |-> sJ, hasTags |-> FALSE, tags |-> <<>>, text |-> sX],
     [kind |-> <<>>, hasTags |-> FALSE, tags |-> <<>>, text |-> sX]}

IdArgs == {<<"0">>, <<"1">>, <<"x">>}

\* update: args[1] and args[2].
UpdateArgs ==
    {<<"--tags", sA>>, <<"--kind", sJ>>, <<"--note", sY>>, <<"--text", sY>>}

\* list: the whole argument vector.
ListArgs ==
    {<<>>, <<"--kind">>}
    \cup {<<"--id", v>> : v \in IdArgs}
    \cup {<<"--kind", v>> : v \in {sT, sJ}}
    \cup {<<"--author", v>> : v \in {<<>>, sM}}
    \cup {<<m, v>> : m \in {"--tags", "--exact-tags"}, v \in {sA, sB, sAB}}
    \cup {<<"--date", v>> : v \in {sDay1 \o <<",">> \o sDay1,
                                    sDay1 \o <<",">> \o sDay2,
                                    sDay1,
                                    sDay1 \o <<",">> \o sBadDay}}
    \cup {<<"--sort", sA>>}
    \cup {<<"--kind", sT, "--tags", sA>>, <<"--exact-tags", sAB, "--kind", sT>>}

\* The instants the clock shows: 01/01/2025 at 12:00:00 and at 23:59:59, and
\* 02/01/2025 at 00:00:01.
Instants == {12 * 3600, SecondsPerDay - 1, SecondsPerDay + 1}

\* What settings.json may hold under "author" (nothing, or a name).
AuthorArgs == {<<>>, sM}

----------------------------------------------------------------------------
(* The commands.  Each action is one run of the program: load, compute,    *)
(* save, return to main.  last records the run until the process exits:    *)
(* the command, its arguments, the id it worked on, the error it returned  *)
(* ("nil" for none), what the file system did, the time, the document      *)
(* before the run and, for list, the loaded map after filtering (inp) and  *)
(* the map that is printed (out).                                          *)

Ran(op, args, id, err, io, inp, out) ==
    [op |-> op, args |-> args, id |-> id, err |-> err, io |-> io, now |-> clock,
     pre |-> file, inp |-> inp, out |-> out]

Returns(op, args, id, err, io) ==
    last' = Ran(op, args, id, err, io, EmptyNotes, EmptyNotes)

\* No process is running.
Idle ==
    [op |-> "none", args |-> <<>>, id |-> 0, err |-> "nil", io |-> "ok", now |-> 0,
     pre |-> EmptyNotes, inp |-> EmptyNotes, out |-> EmptyNotes]

\* No two commands are running at once.
NoProcs == [base |-> EmptyNotes, run |-> <<>>]

\* No second installation is there to exchange with.
NoSync == [pc |-> "none"]

Init ==
    /\ file = EmptyNotes
    /\ settings \in AuthorArgs
    /\ clock \in Instants
    /\ last = Idle
    /\ procs = NoProcs
    /\ sync = NoSync

\* Time passes between two runs.
Tick ==
    /\ last = Idle
    /\ \E t \in Instants : t > clock /\ clock' = t
    /\ UNCHANGED <<file, settings, last, procs, sync>>

\* main prints the error, if any, and the process exits.
Exit ==
    /\ last # Idle
    /\ last' = Idle
    /\ UNCHANGED <<file, settings, clock, procs, sync>>

\* The Note addNote stores.
NewNote(id, a) ==
    [Id |-> id, Kind |-> a.kind, Tags |-> IF a.hasTags THEN Split(a.tags) ELSE <<>>,
     Text |-> a.text, Date |-> clock, Author |-> settings]

addNote(a, io) ==
    LET l     == load(io)
        id    == ToUint32(getHighestId(l.notes) + 1)
        s     == save(io, Put(l.notes, id, NewNote(id, a)))
    IN  /\ last = Idle
        /\ Cardinality(DOMAIN file) < MaxNotes
        /\ UNCHANGED <<settings, clock, procs, sync>>
        /\ IF a.kind = <<>> \/ a.text = <<>>
           THEN Returns("add", a, 0, "usage", io) /\ UNCHANGED file
           ELSE IF l.err # "nil"
           THEN Returns("add", a, 0, l.err, io) /\ UNCHANGED file
           ELSE IF io = "settings"
           THEN Returns("add", a, 0, "load", io) /\ UNCHANGED file
           ELSE Returns("add", a, id, s.err, io) /\ file' = s.doc

\* The switch of updateNote on args[1]: the note with one field replaced.
Updated(note, updateType, updateValue) ==
    IF updateType \in {"-t", "--tags"} THEN [note EXCEPT !.Tags = Split(updateValue)]
    ELSE IF updateType \in {"-k", "--kind"} THEN [note EXCEPT !.Kind = updateValue]
    ELSE [note EXCEPT !.Text = updateValue]

updateNote(idArg, u, io) ==
    LET idconv == Atoi(idArg)
        id     == ToUint32(idconv.val)
        l      == load(io)
        note   == Updated(Get(l.notes, id), u[1], u[2])
        s      == save(io, Put(l.notes, id, note))
        args   == <<idArg>> \o u
    IN  /\ last = Idle
        /\ id \in DOMAIN file \/ Cardinality(DOMAIN file) < MaxNotes
        /\ UNCHANGED <<settings, clock, procs, sync>>
        /\ IF idconv.err # "nil"
           THEN Returns("update", args, id, idconv.err, io) /\ UNCHANGED file
           ELSE IF l.err # "nil"
           THEN Returns("update", args, id, l.err, io) /\ UNCHANGED file
           ELSE IF u[1] \notin {"-t", "--tags", "-k", "--kind", "-n", "--note"}
           THEN Returns("update", args, id, "usage", io) /\ UNCHANGED file
           ELSE Returns("update", args, id, "nil", io) /\ file' = s.doc

\* for _, note := range notes { if note.Id == id { delete(notes, note.Id) } }
RemoveLoop(notes, id) ==
    IF \E k \in DOMAIN notes : notes[k].Id = id THEN Delete(notes, id) ELSE notes

removeNote(idArg, io) ==
    LET idconv == Atoi(idArg)
        id     == ToUint32(idconv.val)
        l      == load(io)
        s      == save(io, RemoveLoop(l.notes, id))
    IN  /\ last = Idle
        /\ UNCHANGED <<settings, clock, procs, sync>>
        /\ IF idconv.err # "nil"
           THEN Returns("remove", <<idArg>>, id, idconv.err, io) /\ UNCHANGED file
           ELSE IF l.err # "nil"
           THEN Returns("remove", <<idArg>>, id, l.err, io) /\ UNCHANGED file
           ELSE Returns("remove", <<idArg>>, id, "nil", io) /\ file' = s.doc

\* A check that turns away only a clause list of odd length.
listArgsRejectedOdd(n) == n % 2 = 1

\* len(args) == 1 || len(args) > 2
listArgsRejected(n) == n = 1 \/ n > 2

listNotes(args, io) ==
    LET l == load(io)
    IN  /\ last = Idle
        /\ UNCHANGED <<file, settings, clock, procs, sync>>
        /\ IF listArgsRejected(Len(args))
           THEN Returns("list", args, 0, "usage", io)
           ELSE IF l.err # "nil"
           THEN Returns("list", args, 0, l.err, io)
           ELSE IF Len(args) = 2
           THEN \E r \in filterNotes(args[1], args[2], 1, <<l.notes>>) :
                    last' = Ran("list", args, 0, r.err, io, r.heap[1],
                                IF r.err = "nil" THEN r.heap[r.ret] ELSE EmptyNotes)
           ELSE last' = Ran("list", args, 0, "nil", io, l.notes, l.notes)

Next ==
    \/ Tick
    \/ \E a \in AddArgs, io \in IoOutcomes \cup {"settings"} : addNote(a, io)
    \/ \E i \in IdArgs, u \in UpdateArgs, io \in IoOutcomes : updateNote(i, u, io)
    \/ \E i \in IdArgs, io \in IoOutcomes : removeNote(i, io)
    \/ \E args \in ListArgs, io \in {"ok", "load"} : listNotes(args, io)
    \/ Exit

Spec == Init /\ [][Next]_vars

----------------------------------------------------------------------------
(* What the claims speak of. *)

\* The run that has just returned listed with one filter clause and every
\* file operation succeeded.
Filtered(modes) ==
    /\ last.op = "list"
    /\ last.io = "ok"
    /\ Len(last.args) = 2
    /\ last.args[1] \in modes

\* The printed map holds this note (under whatever key).
Printed(note) == \E j \in DOMAIN last.out : last.out[j] = note

HasAll(note, tags) == \A i \in 1..Len(tags) : Contains(note.Tags, tags[i])

HasAny(note, tags) == \E i \in 1..Len(tags) : Contains(note.Tags, tags[i])

\* The printed map holds exactly the notes of the loaded entries in keys.
PrintsExactly(keys) ==
    /\ last.err = "nil"
    /\ Cardinality(DOMAIN last.out) = Cardinality(keys)
    /\ \A j \in DOMAIN last.out : \E k \in keys : last.out[j] = last.pre[k]
    /\ \A k \in keys : Printed(last.pre[k])

\* C1: a successful add stores the new note under an id no existing entry
\* uses: the collection grows by exactly one entry and every entry that was
\* there before is still there, unchanged.
C1_AddKeepsExisting ==
    (last.op = "add" /\ last.err = "nil") =>
        /\ last.id \notin DOMAIN last.pre
        /\ DOMAIN file = DOMAIN last.pre \cup {last.id}
        /\ Cardinality(DOMAIN file) = Cardinality(DOMAIN last.pre) + 1
        /\ \A k \in DOMAIN last.pre : file[k] = last.pre[k]

\* C2: filtering by an id that is not a key of the collection returns an
\* empty result and no error.
C2_AbsentIdIsEmpty ==
    (/\ Filtered({"-i", "--id"})
     /\ Atoi(last.args[2]).err = "nil"
     /\ Atoi(last.args[2]).val \notin DOMAIN last.pre) =>
        last.err = "nil" /\ last.out = EmptyNotes

\* C3: for the date range S,E a note dated E at 23:59:59 is in the result and
\* a note dated one second past the midnight that ends E is not.
C3_DateRangeInclusive ==
    (/\ Filtered({"-d", "--date"})
     /\ Len(Split(last.args[2])) = 2
     /\ ParseDate(Split(last.args[2])[1]).err = "nil"
     /\ ParseDate(Split(last.args[2])[2]).err = "nil") =>
        LET S == ParseDate(Split(last.args[2])[1]).val
            E == ParseDate(Split(last.args[2])[2]).val
        IN  \A k \in DOMAIN last.pre :
                /\ (S <= E /\ last.pre[k].Date = E + (SecondsPerDay - 1))
                        => Printed(last.pre[k])
                /\ last.pre[k].Date = E + SecondsPerDay + 1
                        => ~Printed(last.pre[k])

\* C4: the all-of (exact-tags) filter returns exactly the entries whose note
\* carries every requested tag: none that misses a tag, and none that carries
\* them all is left out.
C4_ExactTagsAllOf ==
    Filtered({"-e", "--exact-tags"}) =>
        PrintsExactly({k \in DOMAIN last.pre :
                          HasAll(last.pre[k], Split(last.args[2]))})

\* C5: the any-of (tags) filter returns exactly the entries whose note carries
\* at least one requested tag, each matching note once, under its own id.
C5_TagsAnyOf ==
    Filtered({"-t", "--tags"}) =>
        /\ PrintsExactly({k \in DOMAIN last.pre :
                             HasAny(last.pre[k], Split(last.args[2]))})
        /\ \A j \in DOMAIN last.out : last.out[j].Id = j

\* What a clause of kind, tags, exact-tags or author asks of a note.
Satisfies(note, mode, value) ==
    IF mode \in {"-k", "--kind"} THEN note.Kind = value
    ELSE IF mode \in {"-t", "--tags"} THEN HasAny(note, Split(value))
    ELSE IF mode \in {"-e", "--exact-tags"} THEN HasAll(note, Split(value))
    ELSE note.Author = value

C7_UpdateRefreshesDate ==
    (/\ last.op = "update" /\ last.err = "nil" /\ last.io = "ok"
     /\ last.id \in DOMAIN last.pre
     /\ last.pre[last.id].Date # ZeroTime
     /\ last.now > last.pre[last.id].Date) =>
        /\ file[last.id].Date = last.now
        /\ file[last.id].Date > last.pre[last.id].Date

\* C8: after remove with id i no entry is stored under i and every entry
\* stored under another id is unchanged; removing an absent id changes
\* nothing.
C8_RemoveIsHardDelete ==
    (last.op = "remove" /\ last.err = "nil" /\ last.io = "ok") =>
        /\ last.id \notin DOMAIN file
        /\ \A k \in DOMAIN last.pre \ {last.id} :
                k \in DOMAIN file /\ file[k] = last.pre[k]
        /\ last.id \notin DOMAIN last.pre => file = last.pre

\* C9: when loading or saving the notes document fails during add, update or
\* remove, the command returns an error.
C9_FailureIsReported ==
    (last.op \in {"add", "update", "remove"} /\ last.io # "ok") =>
        last.err # "nil"

\* C10: no query filter changes the collection it is given: after the call
\* the loaded map has the keys and the notes it had before, also when the
\* tag filters are handed an empty tag list.
C10_FiltersLeaveInputAlone ==
    /\ (last.op = "list" /\ last.io = "ok" /\ Len(last.args) = 2) =>
            last.inp = last.pre
    /\ \A r \in getNotesByTagsExact(<<>>, 1, <<file>>)
                    \cup getNotesByTags(<<>>, 1, <<file>>) : r.heap[1] = file

C10_Witness ==
    /\ Filtered({"-e", "--exact-tags"})
    /\ last.err = "nil"
    /\ last.inp = last.pre
    /\ Cardinality(DOMAIN last.pre) = 2
    /\ Cardinality(DOMAIN last.out) = 1

\* C12: in every persisted collection reached by add, update and remove
\* commands each entry's key equals the Id field of the note stored under it.
C12_KeyIsId == \A k \in DOMAIN file : file[k].Id = k

----------------------------------------------------------------------------
(* Two commands at once.  Nothing keeps two plumnote processes from        *)
(* working on notes.json together: each loads the document, computes on    *)
(* its own map and saves it.  Here the two steps of a command are separate *)
(* actions, and procs.base is the document when the two commands started.  *)

\* A command with its arguments: add (a), or remove / update (id, u).
RaceCmds ==
    {[op |-> "add", a |-> a, id |-> <<"0">>, u |-> <<"--kind", sJ>>] :
        a \in {x \in AddArgs : x.kind # <<>>}}
    \cup {[op |-> o, a |-> CHOOSE x \in AddArgs : x.kind = sJ, id |-> i,
           u |-> <<"--kind", sJ>>] :
            o \in {"remove", "update"}, i \in {<<"0">>, <<"1">>}}

\* What a command makes of the map it loaded, and then saves:
\* addNote (id and notes[id] = Note{...}), removeNote (the loop), updateNote
\* (the switch and notes[id] = note).
Computed(cmd, notes) ==
    LET id == ToUint32(Atoi(cmd.id).val)
        hi == ToUint32(getHighestId(notes) + 1)
    IN  IF cmd.op = "add" THEN Put(notes, hi, NewNote(hi, cmd.a))
        ELSE IF cmd.op = "remove" THEN RemoveLoop(notes, id)
        ELSE Put(notes, id, Updated(Get(notes, id), cmd.u[1], cmd.u[2]))

Running == procs.run # <<>>

\* Two processes are started, each with its command.
RaceStart(c1, c2) ==
    /\ ~Running
    /\ Cardinality(DOMAIN file) < MaxNotes
    /\ procs' = [base |-> file,
                 run  |-> <<[pc |-> "start", cmd |-> c1, notes |-> EmptyNotes],
                            [pc |-> "start", cmd |-> c2, notes |-> EmptyNotes]>>]
    /\ UNCHANGED <<file, settings, clock, last, sync>>

\* load(NotesFile, notes) of process p.
RaceLoad(p) ==
    /\ Running
    /\ procs.run[p].pc = "start"
    /\ procs' = [procs EXCEPT !.run[p].pc = "loaded", !.run[p].notes = file]
    /\ UNCHANGED <<file, settings, clock, last, sync>>

\* Process p computes on the map it loaded and saves it.
RaceSave(p) ==
    /\ Running
    /\ procs.run[p].pc = "loaded"
    /\ file' = Computed(procs.run[p].cmd, procs.run[p].notes)
    /\ procs' = [procs EXCEPT !.run[p].pc = "done"]
    /\ UNCHANGED <<settings, clock, last, sync>>

BothDone == Running /\ \A p \in 1..2 : procs.run[p].pc = "done"

\* Both processes have exited.
RaceExit ==
    /\ BothDone
    /\ procs' = NoProcs
    /\ UNCHANGED <<file, settings, clock, last, sync>>

\* Time passes while no command runs.
RaceTick == ~Running /\ Tick

NextRace ==
    \/ \E c1 \in RaceCmds, c2 \in RaceCmds : RaceStart(c1, c2)
    \/ \E p \in 1..2 : RaceLoad(p)
    \/ \E p \in 1..2 : RaceSave(p)
    \/ RaceExit
    \/ RaceTick

SpecRace == Init /\ [][NextRace]_vars

\* C13: when the load and save steps of two commands interleave, the final
\* document is what one of the two serial orders of the commands gives.
C13_NoLostUpdate ==
    BothDone =>
        LET c1 == procs.run[1].cmd
            c2 == procs.run[2].cmd
        IN  file \in {Computed(c2, Computed(c1, procs.base)),
                      Computed(c1, Computed(c2, procs.base))}

----------------------------------------------------------------------------
(* The exchange between two installations (Sync Engine).  Each installation *)
(* has its own document, whose notes carry the dirty bit Synced; a batch on *)
(* the wire is a sequence of notes without it.  sync holds both documents,  *)
(* the position of the running exchange, the two batches, the documents as  *)
(* the exchange found them, and what happened since the exchange before.    *)

MaxEdits == 2

Stores == {"A", "B"}

Peer(s) == IF s = "A" THEN "B" ELSE "A"

\* The ids notes are created under (derived from the time of creation, so
\* that two installations may or may not pick the same one).
SyncIds == {1, 2}

\* A note as the document holds it.
Stored(n, synced) ==
    [Id |-> n.Id, Kind |-> n.Kind, Tags |-> n.Tags, Text |-> n.Text,
     Date |-> n.Date, Author |-> n.Author, Synced |-> synced]

\* A note as it is transferred: every field but Synced.
Transferable(e) ==
    [Id |-> e.Id, Kind |-> e.Kind, Tags |-> e.Tags, Text |-> e.Text,
     Date |-> e.Date, Author |-> e.Author]

Unsynced(notes) == {k \in DOMAIN notes : ~notes[k].Synced}

\* Collect-out, the batch: the unsynced entries, each once, in the order the
\* scan of the collection meets them.
Batches(notes) ==
    LET D == Unsynced(notes)
        n == Cardinality(D)
    IN  {[j \in 1..n |-> Transferable(notes[q[j]])] :
            q \in {f \in [1..n -> D] : \A a, b \in 1..n : f[a] = f[b] => a = b}}

\* Collect-out, the collection: every entry is marked synced.
MarkSynced(notes) == [k \in DOMAIN notes |-> [notes[k] EXCEPT !.Synced = TRUE]]

\* A merge-in that leaves the dirty bit of what it writes unset.
MergeInDirty(notes, batch) ==
    [k \in DOMAIN notes \cup {batch[j].Id : j \in 1..Len(batch)} |->
        IF \E j \in 1..Len(batch) : batch[j].Id = k
        THEN LET j == Max({x \in 1..Len(batch) : batch[x].Id = k})
             IN  Stored(batch[j], FALSE)
        ELSE notes[k]]

\* Merge-in: every transferred note overwrites (or inserts) the entry at its
\* id, with synced = true; the last one of an id in the batch wins.
MergeIn(notes, batch) ==
    [k \in DOMAIN notes \cup {batch[j].Id : j \in 1..Len(batch)} |->
        IF \E j \in 1..Len(batch) : batch[j].Id = k
        THEN LET j == Max({x \in 1..Len(batch) : batch[x].Id = k})
             IN  Stored(batch[j], TRUE)
        ELSE notes[k]]

NoStores == [s \in Stores |-> EmptyNotes]

InitSync ==
    /\ file = EmptyNotes
    /\ settings \in AuthorArgs
    /\ clock \in Instants
    /\ last = Idle
    /\ procs = NoProcs
    /\ sync = [pc |-> "idle", who |-> "A", store |-> NoStores, out |-> <<>>,
               back |-> <<>>, pre |-> NoStores, full |-> FALSE, dirty |-> FALSE,
               fresh |-> FALSE, one |-> FALSE, edits |-> 0]

\* A local command changed the document of s.
Edited(s, notes) ==
    /\ sync.edits < MaxEdits
    /\ sync' = [sync EXCEPT !.store[s] = notes, !.dirty = TRUE,
                            !.edits = sync.edits + 1]
    /\ UNCHANGED <<file, settings, clock, last, procs>>

\* add at s: the new note is unsynced.
SyncAdd(s, id, text) ==
    Edited(s, Put(sync.store[s], id,
                  Stored(NewNote(id, [kind |-> sJ, hasTags |-> FALSE,
                                      tags |-> <<>>, text |-> text]), FALSE)))

\* update at s: the text is replaced, the dirty bit reset, the date refreshed.
SyncUpdate(s, id, text) ==
    /\ id \in DOMAIN sync.store[s]
    /\ Edited(s, Put(sync.store[s], id,
                     [sync.store[s][id] EXCEPT !.Text = text, !.Date = clock,
                                               !.Synced = FALSE]))

\* remove at s: hard delete.
SyncRemove(s, id) ==
    /\ id \in DOMAIN sync.store[s]
    /\ Edited(s, Delete(sync.store[s], id))


Exchange(pc, who, notes, out, back) ==
    /\ sync' = [sync EXCEPT !.pc = pc, !.store[who] = notes, !.out = out,
                            !.back = back]
    /\ UNCHANGED <<file, settings, clock, last, procs>>

\* Initiator, step 1: collect-out at i, persist, send the batch.
SyncStart(i, batch) ==
    /\ sync.pc = "idle"
    /\ batch \in Batches(sync.store[i])
    /\ sync' = [sync EXCEPT !.pc = "sent", !.who = i,
                            !.store[i] = MarkSynced(sync.store[i]),
                            !.out = batch, !.back = <<>>, !.pre = sync.store,
                            !.fresh = sync.full /\ ~sync.dirty,
                            !.full = FALSE, !.dirty = FALSE]
    /\ UNCHANGED <<file, settings, clock, last, procs>>

\* Responder, steps 2 to 4: merge-in of the payload, persist.
SyncMergeIn ==
    /\ sync.pc = "sent"
    /\ Exchange("merged", Peer(sync.who),
                MergeIn(sync.store[Peer(sync.who)], sync.out), sync.out, <<>>)

\* Responder, steps 5 and 6: collect-out, persist, respond with the batch.
SyncRespond(batch) ==
    /\ sync.pc = "merged"
    /\ batch \in Batches(sync.store[Peer(sync.who)])
    /\ Exchange("responded", Peer(sync.who),
                MarkSynced(sync.store[Peer(sync.who)]), sync.out, batch)

\* Initiator, steps 3 and 4: merge-in of the response.
SyncFinish ==
    /\ sync.pc = "responded"
    /\ Exchange("done", sync.who, MergeIn(sync.store[sync.who], sync.back),
                sync.out, sync.back)

\* The documents as the exchange found them: one holds a single unsynced
\* note, the other nothing.
OneUnsynced(pre) ==
    \E s \in Stores :
        /\ Cardinality(DOMAIN pre[s]) = 1
        /\ Unsynced(pre[s]) = DOMAIN pre[s]
        /\ pre[Peer(s)] = EmptyNotes

\* The exchange is over: the initiator exits.
SyncClose ==
    /\ sync.pc = "done"
    /\ sync' = [sync EXCEPT !.pc = "idle", !.out = <<>>, !.back = <<>>,
                            !.pre = NoStores, !.full = TRUE, !.fresh = FALSE,
                            !.one = OneUnsynced(sync.pre) /\ ~sync.dirty]
    /\ UNCHANGED <<file, settings, clock, last, procs>>

\* Initiator, step 2: the request or the response is lost (SyncUnreachable);
\* the initiator's document stays as collect-out left it.
SyncUnreachable ==
    /\ sync.pc \in {"sent", "responded"}
    /\ sync' = [sync EXCEPT !.pc = "idle", !.out = <<>>, !.back = <<>>,
                            !.pre = NoStores, !.fresh = FALSE, !.one = FALSE]
    /\ UNCHANGED <<file, settings, clock, last, procs>>

AllBatches == UNION {Batches(sync.store[s]) : s \in Stores}

NextSync ==
    \/ \E s \in Stores, id \in SyncIds, text \in {sX, sY} : SyncAdd(s, id, text)
    \/ \E s \in Stores, id \in SyncIds, text \in {sX, sY} : SyncUpdate(s, id, text)
    \/ \E s \in Stores, id \in SyncIds : SyncRemove(s, id)
    \/ \E i \in Stores, batch \in AllBatches : SyncStart(i, batch)
    \/ SyncMergeIn
    \/ \E batch \in AllBatches : SyncRespond(batch)
    \/ SyncFinish
    \/ SyncClose
    \/ SyncUnreachable
    \/ Tick

SpecSync == InitSync /\ [][NextSync]_vars

\* The note of the single entry of the document that held one.
TheNote(pre) ==
    LET s == CHOOSE x \in Stores : pre[x] # EmptyNotes
    IN  pre[s][CHOOSE k \in DOMAIN pre[s] : TRUE]

\* C11: a full exchange that starts from one document holding a single
\* unsynced note and the other empty, with no local edit meanwhile, leaves
\* both documents holding exactly that note with Synced true; and a full
\* exchange that follows a full exchange with no local edit since that one
\* began transfers empty batches both ways and leaves both documents as it
\* found them.
C11_SyncIdempotent ==
    (sync.pc = "done" /\ ~sync.dirty) =>
        /\ OneUnsynced(sync.pre) =>
              \A s \in Stores :
                  sync.store[s] =
                      Put(EmptyNotes, TheNote(sync.pre).Id,
                          [TheNote(sync.pre) EXCEPT !.Synced = TRUE])
        /\ sync.fresh =>
              /\ sync.out = <<>>
              /\ sync.back = <<>>
              /\ sync.store = sync.pre

\* The second exchange of the claim has run: the exchange before it started
\* from one unsynced note and an empty peer, nothing was edited since, and
\* both documents hold the note.
C11_Witness ==
    /\ sync.pc = "done"
    /\ sync.fresh
    /\ ~sync.dirty
    /\ sync.one
    /\ \A s \in Stores : Cardinality(DOMAIN sync.store[s]) = 1

====
